---- MODULE Spec2Model ----
(***************************************************************************)
(* The Truco game engine (src/app/game-engine): the deck functions of      *)
(* deck.ts and the GameEngine class of game-engine.ts, as a state machine. *)
(* One action per dispatched GameAction (a whole processAction call) and   *)
(* one for the firing of a next-round timer set by completeRound.          *)
(***************************************************************************)
EXTENDS Integers, Sequences, FiniteSets, TLC

VARIABLES
    config,              \* GameEngine.config
    phase,               \* gameState.phase
    players,             \* gameState.players: sequence of Player
    teams,               \* gameState.teams
    deck,                \* gameState.deck
    currentRound,        \* gameState.currentRound: 0 is null, else index into rounds
    rounds,              \* gameState.rounds
    currentPlayerIndex,  \* gameState.currentPlayerIndex (0-based, as in the code)
    timers,              \* number of pending setTimeout(startNewRound) callbacks
    events,              \* the events emitted by the last step, in order
    phaseLog,            \* the values assigned to gameState.phase by the last step
    disturbed            \* history: the disturbances so far (see MaxDisturbed)

vars == <<config, phase, players, teams, deck, currentRound, rounds,
          currentPlayerIndex, timers, events, phaseLog, disturbed>>

gameVars == <<phase, players, teams, deck, currentRound, rounds, currentPlayerIndex>>

----------------------------------------------------------------------------
(* Bounds of the model *)

\* cards that may be played in a behaviour, over all its rounds
MaxPlays == 6
\* cards that may be played in a behaviour with more than one disturbance,
\* for each disturbance it stays below MaxDisturbed
MaxLatePlays == 2
\* disturbances of a behaviour: the LEAVE_GAME, CALL_TRUCO, ACCEPT_TRUCO and
\* REJECT_TRUCO actions that take effect
MaxDisturbed == 3
\* outcomes of the shuffle that deals a round
NumShuffles == 2

\* the players that may dispatch actions
PlayerIds == {"p1", "p2", "p3"}
\* the players that may ask to join: one more than the seats of the game
JoinerIds == PlayerIds \cup {"p4"}
\* the order in which they join
IdOrder(playerId) ==
    CASE playerId = "p1" -> 1 [] playerId = "p2" -> 2 [] playerId = "p3" -> 3 [] OTHER -> 4
\* the players that may answer a truco call
ResponderIds == {"p2"}

\* the cards the hands given to removeCardFromHand are made of
MaxHandCards == 5

\* the seats and the hand sizes of the configurations that are validated
MaxSeats == 8
MaxHandSize == 13

\* the part of the 40 card deck the modelled engine deals from
DeckSuits == {"hearts", "diamonds"}
DeckRanks == {"4", "5", "6", "7", "Q"}

NULL == "null"

----------------------------------------------------------------------------
(* types.ts *)

WAITING == "waiting"
DEALING == "dealing"
PLAYING == "playing"
ROUND_END == "round_end"
GAME_END == "game_end"

TrucoCalls == {"none", "truco", "retruco", "vale_cuatro"}

\* the GameAction values processAction has a case for
HandledActions == {"join_game", "leave_game", "ready_player", "start_game",
                   "play_card", "call_truco", "accept_truco", "reject_truco"}
\* the GameAction values it has no case for
OtherActions == {"deal_cards", "next_round", "end_game"}

----------------------------------------------------------------------------
(* deck.ts *)

SPANISH_RANKS == <<"4", "5", "6", "7", "Q", "J", "K", "A", "2", "3">>
FRENCH_RANKS == <<"2", "3", "4", "5", "6", "7", "Q", "J", "K", "A">>
ALL_SUITS == <<"hearts", "diamonds", "clubs", "spades">>

Card(suit, rank) == [id |-> <<suit, rank>>, suit |-> suit, rank |-> rank]

\* suits in the outer loop, ranks in the inner one
createDeck(deckType) ==
    LET ranks == IF deckType = "spanish" THEN SPANISH_RANKS ELSE FRENCH_RANKS
        n == Len(ranks)
    IN  [i \in 1..(Len(ALL_SUITS) * n) |->
            Card(ALL_SUITS[((i - 1) \div n) + 1], ranks[((i - 1) % n) + 1])]

\* powerMap[rank] || 0 ; the manilha keys are no rank of any card
getCardPower(card) ==
    CASE card.rank = "4" -> 1
      [] card.rank = "5" -> 2
      [] card.rank = "6" -> 3
      [] card.rank = "7" -> 4
      [] card.rank = "Q" -> 5
      [] card.rank = "J" -> 6
      [] card.rank = "K" -> 7
      [] card.rank = "A" -> 8
      [] card.rank = "2" -> 9
      [] card.rank = "3" -> 10
      [] OTHER -> 0

compareCards(card1, card2) ==
    LET power1 == getCardPower(card1)
        power2 == getCardPower(card2)
    IN  IF power1 > power2 THEN 1
        ELSE IF power1 < power2 THEN -1
        ELSE 0

\* Array.reduce without an initial value: the accumulator starts as the first play
RECURSIVE reduceWinner(_, _, _)
reduceWinner(playedCards, i, winner) ==
    IF i > Len(playedCards) THEN winner
    ELSE reduceWinner(playedCards, i + 1,
            IF compareCards(playedCards[i].card, winner.card) > 0
            THEN playedCards[i] ELSE winner)

\* the reduce keeping the later of two plays of equal power
RECURSIVE reduceLastTie(_, _, _)
reduceLastTie(playedCards, i, winner) ==
    IF i > Len(playedCards) THEN winner
    ELSE reduceLastTie(playedCards, i + 1,
            IF compareCards(playedCards[i].card, winner.card) >= 0
            THEN playedCards[i] ELSE winner)

findWinningCard_lastTie(playedCards) ==
    IF Len(playedCards) = 0 THEN NULL
    ELSE reduceLastTie(playedCards, 2, playedCards[1])

findWinningCard(playedCards) ==
    IF Len(playedCards) = 0 THEN NULL
    ELSE reduceWinner(playedCards, 2, playedCards[1])

isValidPlay(card, playerHand) ==
    \E i \in 1..Len(playerHand) : playerHand[i].id = card.id

\* a removal that leaves the hand as it is
removeCardFromHand_kept(card, hand) == hand

\* a removal that drops the first card of the hand, whichever it is
removeCardFromHand_firstDropped(card, hand) ==
    IF Len(hand) = 0 THEN hand ELSE Tail(hand)

removeCardFromHand(card, hand) ==
    SelectSeq(hand, LAMBDA handCard : handCard.id # card.id)

\* a deal that gives every player the top cards of the deck
dealHands_fromTop(shuffledDeck, numPlayers, cardsPerPlayer) ==
    [p \in 1..numPlayers |->
        SubSeq(shuffledDeck, 1, IF cardsPerPlayer <= Len(shuffledDeck)
                                THEN cardsPerPlayer ELSE Len(shuffledDeck))]

\* dealCards after its shuffle: round-robin over the first
\* cardsPerPlayer * numPlayers positions, skipping positions past the deck's end
dealHands(shuffledDeck, numPlayers, cardsPerPlayer) ==
    [p \in 1..numPlayers |->
        LET idx == SelectSeq([j \in 1..cardsPerPlayer |-> (j - 1) * numPlayers + p],
                             LAMBDA ci : ci <= Len(shuffledDeck))
        IN  [j \in 1..Len(idx) |-> shuffledDeck[idx[j]]]]

dealRemaining(shuffledDeck, numPlayers, cardsPerPlayer) ==
    SubSeq(shuffledDeck, cardsPerPlayer * numPlayers + 1, Len(shuffledDeck))

----------------------------------------------------------------------------
(* The random source.  shuffleDeck returns a permutation of its input; the  *)
(* model draws it from a bounded set of permutations, the first NumShuffles *)
(* rotations.                                                               *)

\* the cards of createDeck(deckType) the modelled engine plays with, in deck order
engineDeck(deckType) ==
    SelectSeq(createDeck(deckType),
              LAMBDA c : c.suit \in DeckSuits /\ c.rank \in DeckRanks)

rotate(d, k) == [i \in 1..Len(d) |-> d[((i - 1 + k) % Len(d)) + 1]]

Shuffles(d) == {rotate(d, k) : k \in 0..(NumShuffles - 1)}

----------------------------------------------------------------------------
(* game-engine.ts.  A handler is an operator from the engine's state, held  *)
(* in a record S, to the state it leaves.  S.error is the exception in      *)
(* flight (its code is NULL when there is none): a throw leaves the rest of *)
(* S as it was at the throw.                                                *)

NoError == [code |-> NULL, playerId |-> NULL]

thrown(S) == S.error.code # NULL

Player(playerId) ==
    [id |-> playerId, hand |-> <<>>, score |-> 0, isReady |-> FALSE, isActive |-> FALSE]

\* Array.findIndex on players by id, 0-based; -1 when absent
findIndex(ps, playerId) ==
    IF \E i \in 1..Len(ps) : ps[i].id = playerId
    THEN (CHOOSE i \in 1..Len(ps) :
              ps[i].id = playerId /\ \A j \in 1..(i - 1) : ps[j].id # playerId) - 1
    ELSE -1

emit(S, event) == [S EXCEPT !.events = Append(@, event)]

setPhase(S, p) == [S EXCEPT !.phase = p, !.phaseLog = Append(@, p)]

\* throw new GameError(message, code, playerId)
throw(S, code, playerId) == [S EXCEPT !.error = [code |-> code, playerId |-> playerId]]

\* an exception that is no GameError (a TypeError)
throwTypeError(S) == [S EXCEPT !.error = [code |-> "UNKNOWN", playerId |-> NULL]]

RECURSIVE sumScores(_)
sumScores(ps) == IF Len(ps) = 0 THEN 0 ELSE ps[1].score + sumScores(Tail(ps))

\* a team holds its players by reference: here by id
updateTeams(S) ==
    IF ~config.useTeams THEN S
    ELSE LET n == Len(S.players)
             team1Players == SelectSeq([i \in 1..n |-> i], LAMBDA i : (i - 1) % 2 = 0)
             team2Players == SelectSeq([i \in 1..n |-> i], LAMBDA i : (i - 1) % 2 = 1)
             members(ix) == [j \in 1..Len(ix) |-> S.players[ix[j]]]
             team(id, ix) == [id |-> id,
                              players |-> [j \in 1..Len(ix) |-> S.players[ix[j]].id],
                              score |-> sumScores(members(ix))]
             t1 == IF Len(team1Players) > 0 THEN <<team("team1", team1Players)>> ELSE <<>>
             t2 == IF Len(team2Players) > 0 THEN <<team("team2", team2Players)>> ELSE <<>>
         IN  [S EXCEPT !.teams = t1 \o t2]

\* a reduce that keeps the incumbent when the scores are equal
RECURSIVE reduceBest_firstKept(_, _, _)
reduceBest_firstKept(ps, i, prev) ==
    IF i > Len(ps) THEN prev
    ELSE reduceBest_firstKept(ps, i + 1, IF prev.score >= ps[i].score THEN prev ELSE ps[i])

\* players.reduce((prev, current) => prev.score > current.score ? prev : current)
RECURSIVE reduceBest(_, _, _)
reduceBest(ps, i, prev) ==
    IF i > Len(ps) THEN prev
    ELSE reduceBest(ps, i + 1, IF prev.score > ps[i].score THEN prev ELSE ps[i])

\* reduce of an empty array with no initial value throws a TypeError,
\* after the phase has been set
endGame(S, reason) ==
    LET S1 == setPhase(S, GAME_END)
    IN  IF Len(S1.players) = 0 THEN throwTypeError(S1)
        ELSE emit(S1, [type |-> "game_ended",
                       winner |-> reduceBest(S1.players, 2, S1.players[1]).id,
                       reason |-> reason])

isGameComplete(S) ==
    \E i \in 1..Len(S.players) : S.players[i].score >= config.maxScore

\* the current round and its current trick, read through the references
Round(S) == S.rounds[S.currentRound]

hasTrick(S) == S.currentRound # 0 /\ Round(S).currentTrick # 0

Trick(S) == Round(S).tricks[Round(S).currentTrick]

clearActive(ps) == [i \in 1..Len(ps) |-> [ps[i] EXCEPT !.isActive = FALSE]]

\* players[currentPlayerIndex].isActive = true, when there is such a player
activate(ps, index) ==
    IF index + 1 \in 1..Len(ps)
    THEN [ps EXCEPT ![index + 1].isActive = TRUE]
    ELSE ps

startNewTrick(S) ==
    IF S.currentRound = 0 THEN S
    ELSE LET r == S.currentRound
             trickNumber == Len(S.rounds[r].tricks) + 1
             newTrick == [number |-> trickNumber, cardsPlayed |-> <<>>,
                          winner |-> NULL, isComplete |-> FALSE]
             S1 == [S EXCEPT !.rounds[r].tricks = Append(@, newTrick),
                             !.rounds[r].currentTrick = trickNumber,
                             !.players = activate(clearActive(@), S.currentPlayerIndex)]
         IN  emit(S1, [type |-> "trick_started", number |-> trickNumber])

\* a new round that replaces the history of rounds
startNewRound_historyDropped(S, shuffled1, shuffled2) ==
    LET S1 == setPhase(S, DEALING)
        newRound == [number |-> Len(S1.rounds) + 1, tricks |-> <<>>, currentTrick |-> 0,
                     trucoCall |-> "none", trucoValue |-> 1,
                     calledBy |-> NULL, acceptedBy |-> NULL]
        hands == dealHands(shuffled2, Len(S1.players), config.handSize)
        S2 == [S1 EXCEPT !.deck = shuffled1,
                         !.players = [i \in 1..Len(@) |-> [@[i] EXCEPT !.hand = hands[i]]],
                         !.currentRound = 1,
                         !.rounds = <<newRound>>]
        S3 == startNewTrick(setPhase(S2, PLAYING))
    IN  emit(S3, [type |-> "round_started", number |-> newRound.number])

\* shuffled1 is what shuffleDeck(createDeck(..)) returns, shuffled2 what the
\* shuffle inside dealCards returns
startNewRound(S, shuffled1, shuffled2) ==
    LET S1 == setPhase(S, DEALING)
        newRound == [number |-> Len(S1.rounds) + 1, tricks |-> <<>>, currentTrick |-> 0,
                     trucoCall |-> "none", trucoValue |-> 1,
                     calledBy |-> NULL, acceptedBy |-> NULL]
        hands == dealHands(shuffled2, Len(S1.players), config.handSize)
        S2 == [S1 EXCEPT !.deck = shuffled1,
                         !.players = [i \in 1..Len(@) |-> [@[i] EXCEPT !.hand = hands[i]]],
                         !.currentRound = Len(S1.rounds) + 1,
                         !.rounds = Append(@, newRound)]
        S3 == startNewTrick(setPhase(S2, PLAYING))
    IN  emit(S3, [type |-> "round_started", number |-> newRound.number])

\* the winners of a sequence of tricks in the order trickWins gets its keys:
\* the order of their first win
RECURSIVE winnersInOrder(_)
winnersInOrder(tricks) ==
    IF Len(tricks) = 0 THEN <<>>
    ELSE LET front == winnersInOrder(SubSeq(tricks, 1, Len(tricks) - 1))
             w == tricks[Len(tricks)].winner
         IN  IF w = NULL \/ \E i \in 1..Len(front) : front[i] = w
             THEN front ELSE Append(front, w)

trickWins(tricks, playerId) ==
    Cardinality({i \in 1..Len(tricks) : tricks[i].winner = playerId})

\* a round that ends with its second trick, whoever won
isRoundComplete_twoTricks(S) ==
    IF S.currentRound = 0 THEN FALSE
    ELSE Len(Round(S).tricks) >= 2

\* a round that goes on to a fourth trick unless someone has won three
isRoundComplete_fourTricks(S) ==
    IF S.currentRound = 0 THEN FALSE
    ELSE LET tricks == Round(S).tricks
         IN  IF Len(tricks) < 2 THEN FALSE
             ELSE \/ \E i \in 1..Len(tricks) :
                        tricks[i].winner # NULL /\ trickWins(tricks, tricks[i].winner) >= 3
                  \/ Len(tricks) >= 4

isRoundComplete(S) ==
    IF S.currentRound = 0 THEN FALSE
    ELSE LET tricks == Round(S).tricks
         IN  IF Len(tricks) < 2 THEN FALSE
             ELSE \/ \E i \in 1..Len(tricks) :
                        tricks[i].winner # NULL /\ trickWins(tricks, tricks[i].winner) >= 2
                  \/ Len(tricks) >= 3

\* the value of a key that is an array index ("1", "2"), -1 for the others
arrayIndex(key) ==
    CASE key = "1" -> 1 [] key = "2" -> 2 [] OTHER -> -1

\* the order in which Object.entries lists the keys of an object: the array
\* indices in ascending order, then the other strings in the order in which
\* they were added
ownKeys(keys) ==
    LET ix == {i \in 1..Len(keys) : arrayIndex(keys[i]) # -1}
        before(i) == Cardinality({j \in ix : arrayIndex(keys[j]) < arrayIndex(keys[i])})
        indices == [n \in 1..Cardinality(ix) |-> keys[CHOOSE i \in ix : before(i) = n - 1]]
    IN  indices \o SelectSeq(keys, LAMBDA k : arrayIndex(k) = -1)

\* the forEach over Object.entries(trickWins): a later entry replaces the
\* winner only with strictly more wins
RECURSIVE scanWinner(_, _, _, _, _)
scanWinner(tricks, keys, i, maxWins, winner) ==
    IF i > Len(keys) THEN winner
    ELSE LET wins == trickWins(tricks, keys[i])
         IN  IF wins > maxWins
             THEN scanWinner(tricks, keys, i + 1, wins, keys[i])
             ELSE scanWinner(tricks, keys, i + 1, maxWins, winner)

determineRoundWinner(S) ==
    IF S.currentRound = 0 THEN NULL
    ELSE LET tricks == SelectSeq(Round(S).tricks, LAMBDA t : t.isComplete)
         IN  scanWinner(tricks, ownKeys(winnersInOrder(tricks)), 1, 0, NULL)

\* a round completion that sets no timer for the next round
completeRound_noTimer(S) ==
    IF S.currentRound = 0 THEN S
    ELSE LET S1 == setPhase(S, ROUND_END)
             roundWinner == determineRoundWinner(S1)
             w == findIndex(S1.players, roundWinner)
             S2 == IF roundWinner # NULL /\ w # -1
                   THEN [S1 EXCEPT !.players[w + 1].score = @ + Round(S1).trucoValue]
                   ELSE S1
             S3 == emit(S2, [type |-> "round_completed", winnerId |-> roundWinner,
                             points |-> Round(S2).trucoValue])
         IN  IF isGameComplete(S3) THEN endGame(S3, NULL) ELSE S3

\* a round completion that gives the winner of the round nothing
completeRound_scoreless(S) ==
    IF S.currentRound = 0 THEN S
    ELSE LET S1 == setPhase(S, ROUND_END)
             roundWinner == determineRoundWinner(S1)
             S3 == emit(S1, [type |-> "round_completed", winnerId |-> roundWinner,
                             points |-> Round(S1).trucoValue])
         IN  IF isGameComplete(S3) THEN endGame(S3, NULL)
             ELSE [S3 EXCEPT !.timers = @ + 1]

completeRound(S) ==
    IF S.currentRound = 0 THEN S
    ELSE LET S1 == setPhase(S, ROUND_END)
             roundWinner == determineRoundWinner(S1)
             w == findIndex(S1.players, roundWinner)
             S2 == IF roundWinner # NULL /\ w # -1
                   THEN [S1 EXCEPT !.players[w + 1].score = @ + Round(S1).trucoValue]
                   ELSE S1
             S3 == emit(S2, [type |-> "round_completed", winnerId |-> roundWinner,
                             points |-> Round(S2).trucoValue])
         IN  IF isGameComplete(S3) THEN endGame(S3, NULL)
             ELSE [S3 EXCEPT !.timers = @ + 1]

\* a trick completion that sets the winner and leaves isComplete false
completeTrick_leftOpen(S) ==
    IF ~hasTrick(S) THEN S
    ELSE LET r == S.currentRound
             t == Round(S).currentTrick
             winningPlay == findWinningCard(
                 [i \in 1..Len(Trick(S).cardsPlayed) |->
                     [card |-> Trick(S).cardsPlayed[i].card,
                      playerId |-> Trick(S).cardsPlayed[i].playerId]])
         IN  IF Len(Trick(S).cardsPlayed) = 0 THEN S
             ELSE LET winnerIndex == findIndex(S.players, winningPlay.playerId)
                      S1 == [S EXCEPT !.rounds[r].tricks[t].winner = winningPlay.playerId,
                                      !.currentPlayerIndex =
                                          IF winnerIndex # -1 THEN winnerIndex ELSE @]
                      S2 == emit(S1, [type |-> "trick_completed",
                                      winnerId |-> winningPlay.playerId])
                  IN  IF isRoundComplete(S2) THEN completeRound(S2)
                      ELSE startNewTrick(S2)

completeTrick(S) ==
    IF ~hasTrick(S) THEN S
    ELSE LET r == S.currentRound
             t == Round(S).currentTrick
             winningPlay == findWinningCard(
                 [i \in 1..Len(Trick(S).cardsPlayed) |->
                     [card |-> Trick(S).cardsPlayed[i].card,
                      playerId |-> Trick(S).cardsPlayed[i].playerId]])
         IN  IF Len(Trick(S).cardsPlayed) = 0 THEN S
             ELSE LET winnerIndex == findIndex(S.players, winningPlay.playerId)
                      S1 == [S EXCEPT !.rounds[r].tricks[t].winner = winningPlay.playerId,
                                      !.rounds[r].tricks[t].isComplete = TRUE,
                                      !.currentPlayerIndex =
                                          IF winnerIndex # -1 THEN winnerIndex ELSE @]
                      S2 == emit(S1, [type |-> "trick_completed",
                                      winnerId |-> winningPlay.playerId])
                  IN  IF isRoundComplete(S2) THEN completeRound(S2)
                      ELSE startNewTrick(S2)

nextPlayer(S) ==
    LET index == (S.currentPlayerIndex + 1) % Len(S.players)
        S1 == [S EXCEPT !.currentPlayerIndex = index,
                        !.players = activate(clearActive(@), index)]
    IN  emit(S1, [type |-> "turn_changed", currentPlayerId |-> S1.players[index + 1].id])

\* p is the player's 1-based position in players
playCard(S, p, card) ==
    IF ~hasTrick(S) THEN S
    ELSE LET r == S.currentRound
             t == Round(S).currentTrick
             playedCard == [card |-> card, playerId |-> S.players[p].id]
             S1 == [S EXCEPT !.rounds[r].tricks[t].cardsPlayed = Append(@, playedCard),
                             !.players[p].hand = removeCardFromHand(card, @),
                             !.players[p].isActive = FALSE]
             S2 == emit(S1, [type |-> "card_played", playerId |-> S.players[p].id,
                             card |-> card.id])
         IN  IF Len(Trick(S2).cardsPlayed) = Len(S2.players)
             THEN completeTrick(S2)
             ELSE nextPlayer(S2)

\* a join that does not look at the number of players
handleJoinGame_fullUnchecked(S, playerId, playerData) ==
    IF S.phase # WAITING THEN throw(S, "GAME_IN_PROGRESS", playerId)
    ELSE IF \E i \in 1..Len(S.players) : S.players[i].id = playerId
         THEN throw(S, "PLAYER_EXISTS", playerId)
    ELSE IF ~playerData.present THEN throwTypeError(S)
    ELSE emit([S EXCEPT !.players = Append(@, Player(playerId))],
              [type |-> "player_joined", playerId |-> playerId])

\* playerData.name is read once the three checks have passed
handleJoinGame(S, playerId, playerData) ==
    IF S.phase # WAITING THEN throw(S, "GAME_IN_PROGRESS", playerId)
    ELSE IF Len(S.players) >= config.maxPlayers THEN throw(S, "GAME_FULL", playerId)
    ELSE IF \E i \in 1..Len(S.players) : S.players[i].id = playerId
         THEN throw(S, "PLAYER_EXISTS", playerId)
    ELSE IF ~playerData.present THEN throwTypeError(S)
    ELSE LET S1 == emit([S EXCEPT !.players = Append(@, Player(playerId))],
                        [type |-> "player_joined", playerId |-> playerId])
         IN  IF config.useTeams THEN updateTeams(S1) ELSE S1

\* players.splice(playerIndex, 1)
splice(ps, playerIndex) ==
    [i \in 1..(Len(ps) - 1) |-> IF i <= playerIndex THEN ps[i] ELSE ps[i + 1]]

\* a leave that does not bring currentPlayerIndex back into the array
handleLeaveGame_indexKept(S, playerId) ==
    LET playerIndex == findIndex(S.players, playerId)
    IN  IF playerIndex = -1 THEN throw(S, "PLAYER_NOT_FOUND", playerId)
        ELSE LET S1 == [S EXCEPT !.players = splice(@, playerIndex)]
                 S3 == emit(S1, [type |-> "player_left", playerId |-> playerId])
                 S4 == IF Len(S3.players) < config.minPlayers /\ S3.phase = PLAYING
                       THEN endGame(S3, "Not enough players") ELSE S3
             IN  IF thrown(S4) THEN S4
                 ELSE IF config.useTeams THEN updateTeams(S4) ELSE S4

\* an exception out of endGame skips the updateTeams call
handleLeaveGame(S, playerId) ==
    LET playerIndex == findIndex(S.players, playerId)
    IN  IF playerIndex = -1 THEN throw(S, "PLAYER_NOT_FOUND", playerId)
        ELSE LET S1 == [S EXCEPT !.players = splice(@, playerIndex)]
                 S2 == IF S1.currentPlayerIndex >= Len(S1.players)
                       THEN [S1 EXCEPT !.currentPlayerIndex = 0] ELSE S1
                 S3 == emit(S2, [type |-> "player_left", playerId |-> playerId])
                 S4 == IF Len(S3.players) < config.minPlayers /\ S3.phase = PLAYING
                       THEN endGame(S3, "Not enough players") ELSE S3
             IN  IF thrown(S4) THEN S4
                 ELSE IF config.useTeams THEN updateTeams(S4) ELSE S4

handleReadyPlayer(S, playerId) ==
    LET p == findIndex(S.players, playerId)
    IN  IF p = -1 THEN throw(S, "PLAYER_NOT_FOUND", playerId)
        ELSE emit([S EXCEPT !.players[p + 1].isReady = ~@],
                  [type |-> "player_ready_changed", playerId |-> playerId,
                   isReady |-> ~S.players[p + 1].isReady])

\* START_GAME without the look at isReady
handleStartGame_readyUnchecked(S, playerId, shuffled1, shuffled2) ==
    IF S.phase # WAITING THEN throw(S, "GAME_IN_PROGRESS", playerId)
    ELSE IF Len(S.players) < config.minPlayers
         THEN throw(S, "NOT_ENOUGH_PLAYERS", playerId)
    ELSE emit(startNewRound(S, shuffled1, shuffled2), [type |-> "game_started"])

handleStartGame(S, playerId, shuffled1, shuffled2) ==
    IF S.phase # WAITING THEN throw(S, "GAME_IN_PROGRESS", playerId)
    ELSE IF Len(S.players) < config.minPlayers
         THEN throw(S, "NOT_ENOUGH_PLAYERS", playerId)
    ELSE IF ~(\A i \in 1..Len(S.players) : S.players[i].isReady)
         THEN throw(S, "PLAYERS_NOT_READY", playerId)
    ELSE emit(startNewRound(S, shuffled1, shuffled2), [type |-> "game_started"])

\* Array.find on a hand by card id, as a 1-based position; 0 when absent
findCard(hand, cardId) ==
    IF \E i \in 1..Len(hand) : hand[i].id = cardId
    THEN CHOOSE i \in 1..Len(hand) :
             hand[i].id = cardId /\ \A j \in 1..(i - 1) : hand[j].id # cardId
    ELSE 0

\* PLAY_CARD without the look at isActive
handlePlayCard_turnUnchecked(S, playerId, cardId) ==
    LET p == findIndex(S.players, playerId)
    IN  IF S.phase # PLAYING THEN throw(S, "INVALID_PHASE", playerId)
        ELSE IF p = -1 THEN throw(S, "PLAYER_NOT_FOUND", playerId)
        ELSE IF findCard(S.players[p + 1].hand, cardId) = 0
             THEN throw(S, "INVALID_CARD", playerId)
        ELSE IF ~hasTrick(S) THEN throw(S, "NO_ACTIVE_TRICK", playerId)
        ELSE playCard(S, p + 1,
                      S.players[p + 1].hand[findCard(S.players[p + 1].hand, cardId)])

handlePlayCard(S, playerId, cardId) ==
    LET p == findIndex(S.players, playerId)
    IN  IF S.phase # PLAYING THEN throw(S, "INVALID_PHASE", playerId)
        ELSE IF p = -1 THEN throw(S, "PLAYER_NOT_FOUND", playerId)
        ELSE IF ~S.players[p + 1].isActive THEN throw(S, "NOT_YOUR_TURN", playerId)
        ELSE IF findCard(S.players[p + 1].hand, cardId) = 0
             THEN throw(S, "INVALID_CARD", playerId)
        ELSE IF ~hasTrick(S) THEN throw(S, "NO_ACTIVE_TRICK", playerId)
        ELSE playCard(S, p + 1,
                      S.players[p + 1].hand[findCard(S.players[p + 1].hand, cardId)])

callOrder == <<"none", "truco", "retruco", "vale_cuatro">>

\* Array.indexOf, 0-based; -1 when absent
indexOf(seq, x) ==
    IF \E i \in 1..Len(seq) : seq[i] = x
    THEN (CHOOSE i \in 1..Len(seq) : seq[i] = x /\ \A j \in 1..(i - 1) : seq[j] # x) - 1
    ELSE -1

\* a progression that lets a call skip levels
isValidTrucoCall_anyHigher(current, requested) ==
    indexOf(callOrder, requested) > indexOf(callOrder, current)

isValidTrucoCall(current, requested) ==
    indexOf(callOrder, requested) = indexOf(callOrder, current) + 1

\* a value that does not follow the call
getTrucoValue_flat(call) == 1

\* values[call] || 1
getTrucoValue(call) ==
    CASE call = "none" -> 1
      [] call = "truco" -> 2
      [] call = "retruco" -> 3
      [] call = "vale_cuatro" -> 4
      [] OTHER -> 1

handleCallTruco(S, playerId, call) ==
    IF S.currentRound = 0 THEN throw(S, "NO_ACTIVE_ROUND", playerId)
    ELSE IF findIndex(S.players, playerId) = -1
         THEN throw(S, "PLAYER_NOT_FOUND", playerId)
    ELSE IF ~isValidTrucoCall(Round(S).trucoCall, call)
         THEN throw(S, "INVALID_TRUCO_CALL", playerId)
    ELSE LET r == S.currentRound
         IN  emit([S EXCEPT !.rounds[r].trucoCall = call,
                            !.rounds[r].calledBy = playerId,
                            !.rounds[r].trucoValue = getTrucoValue(call)],
                  [type |-> "truco_called", playerId |-> playerId, call |-> call,
                   value |-> getTrucoValue(call)])

handleAcceptTruco(S, playerId) ==
    IF S.currentRound = 0 THEN throw(S, "NO_ACTIVE_ROUND", playerId)
    ELSE LET r == S.currentRound
         IN  emit([S EXCEPT !.rounds[r].acceptedBy = playerId],
                  [type |-> "truco_accepted", playerId |-> playerId,
                   value |-> Round(S).trucoValue])

handleRejectTruco(S, playerId) ==
    IF S.currentRound = 0 THEN throw(S, "NO_ACTIVE_ROUND", playerId)
    ELSE LET caller == findIndex(S.players, Round(S).calledBy)
             S1 == IF Round(S).calledBy # NULL /\ caller # -1
                   THEN [S EXCEPT !.players[caller + 1].score = @ + 1]
                   ELSE S
         IN  completeRound(emit(S1, [type |-> "truco_rejected", playerId |-> playerId]))

\* a catch that handles a GameError only: any other exception leaves
\* processAction
processAction_gameErrorsOnly(S, action, shuffled1, shuffled2) ==
    LET R == CASE action.type = "join_game" ->
                      handleJoinGame(S, action.playerId, action.data)
               [] action.type = "leave_game" -> handleLeaveGame(S, action.playerId)
               [] action.type = "ready_player" -> handleReadyPlayer(S, action.playerId)
               [] action.type = "start_game" ->
                      handleStartGame(S, action.playerId, shuffled1, shuffled2)
               [] action.type = "play_card" ->
                      IF ~action.data.present THEN throwTypeError(S)
                      ELSE handlePlayCard(S, action.playerId, action.data.cardId)
               [] action.type = "call_truco" ->
                      IF ~action.data.present THEN throwTypeError(S)
                      ELSE handleCallTruco(S, action.playerId, action.data.call)
               [] action.type = "accept_truco" -> handleAcceptTruco(S, action.playerId)
               [] action.type = "reject_truco" -> handleRejectTruco(S, action.playerId)
               [] OTHER -> throw(S, "INVALID_ACTION", NULL)
    IN  IF thrown(R) /\ R.error.code # "UNKNOWN"
        THEN emit([R EXCEPT !.error = NoError],
                  [type |-> "game_error", code |-> R.error.code,
                   playerId |-> R.error.playerId])
        ELSE R

\* an action's data: the name of a JOIN_GAME (which nothing reads back), the
\* card id of a PLAY_CARD, the call of a CALL_TRUCO; present is FALSE for a
\* payload without data, and then reading action.data.cardId, action.data.call
\* or playerData.name throws a TypeError
processAction(S, action, shuffled1, shuffled2) ==
    LET R == CASE action.type = "join_game" ->
                      handleJoinGame(S, action.playerId, action.data)
               [] action.type = "leave_game" -> handleLeaveGame(S, action.playerId)
               [] action.type = "ready_player" -> handleReadyPlayer(S, action.playerId)
               [] action.type = "start_game" ->
                      handleStartGame(S, action.playerId, shuffled1, shuffled2)
               [] action.type = "play_card" ->
                      IF ~action.data.present THEN throwTypeError(S)
                      ELSE handlePlayCard(S, action.playerId, action.data.cardId)
               [] action.type = "call_truco" ->
                      IF ~action.data.present THEN throwTypeError(S)
                      ELSE handleCallTruco(S, action.playerId, action.data.call)
               [] action.type = "accept_truco" -> handleAcceptTruco(S, action.playerId)
               [] action.type = "reject_truco" -> handleRejectTruco(S, action.playerId)
               [] OTHER -> throw(S, "INVALID_ACTION", NULL)
    IN  IF thrown(R)
        THEN emit([R EXCEPT !.error = NoError],
                  [type |-> "game_error", code |-> R.error.code,
                   playerId |-> R.error.playerId])
        ELSE R

----------------------------------------------------------------------------
(* The state machine *)

\* DEFAULT_TRUCO_CONFIG with fewer seats and a lower target score
SmallConfig == [maxPlayers |-> 3, minPlayers |-> 2, maxScore |-> 2, useTeams |-> FALSE,
                deckType |-> "spanish", handSize |-> 3]

Configs == {SmallConfig}

\* initializeGame
Init ==
    /\ config \in Configs
    /\ phase = WAITING
    /\ players = <<>>
    /\ teams = <<>>
    /\ deck = <<>>
    /\ currentRound = 0
    /\ rounds = <<>>
    /\ currentPlayerIndex = 0
    /\ timers = 0
    /\ events = <<>>
    /\ phaseLog = <<>>
    /\ disturbed = 0

\* the engine's state as a step finds it
Pre ==
    [phase |-> phase, players |-> players, teams |-> teams, deck |-> deck,
     currentRound |-> currentRound, rounds |-> rounds,
     currentPlayerIndex |-> currentPlayerIndex, timers |-> timers,
     events |-> <<>>, phaseLog |-> <<>>, error |-> NoError]

RECURSIVE sumLen(_)
sumLen(tricks) ==
    IF Len(tricks) = 0 THEN 0 ELSE Len(tricks[1].cardsPlayed) + sumLen(Tail(tricks))

RECURSIVE totalPlays(_)
totalPlays(rs) == IF Len(rs) = 0 THEN 0 ELSE sumLen(rs[1].tricks) + totalPlays(Tail(rs))

\* what a step adds to disturbed
disturbs(S) ==
    IF \E i \in 1..Len(S.events) :
           S.events[i].type \in {"player_left", "truco_called", "truco_accepted",
                                 "truco_rejected"}
    THEN 1 ELSE 0

\* The bounds of the model: a behaviour either plays up to MaxPlays cards and
\* has at most one disturbance, or has up to MaxDisturbed disturbances and
\* plays up to MaxLatePlays cards for each disturbance it leaves unused.  They
\* bound the rounds, the timers and the scores with them.
Within(S) ==
    \/ /\ totalPlays(S.rounds) <= MaxPlays
       /\ disturbed + disturbs(S) <= 1
    \/ /\ disturbed + disturbs(S) <= MaxDisturbed
       /\ totalPlays(S.rounds) <= MaxLatePlays * (MaxDisturbed - (disturbed + disturbs(S)))

Apply(S) ==
    /\ events' = S.events
    /\ phaseLog' = S.phaseLog
    /\ phase' = S.phase
    /\ players' = S.players
    /\ teams' = S.teams
    /\ deck' = S.deck
    /\ currentRound' = S.currentRound
    /\ rounds' = S.rounds
    /\ currentPlayerIndex' = S.currentPlayerIndex
    /\ timers' = S.timers
    /\ UNCHANGED config

Commit(S) ==
    /\ Apply(S)
    /\ disturbed' = disturbed + disturbs(S)
    /\ Within(S)

\* the outcome of shuffleDeck(createDeck(config.deckType)) in startNewRound.
\* gameState.deck is read by dealCards alone, which shuffles it again before
\* it reads a position: one order stands for all
SpanishDeck == engineDeck("spanish")

FrenchDeck == engineDeck("french")

FirstShuffles == {IF config.deckType = "spanish" THEN SpanishDeck ELSE FrenchDeck}

\* the outcomes of the shuffle in dealCards
SpanishShuffles == Shuffles(SpanishDeck)

FrenchShuffles == Shuffles(FrenchDeck)

SecondShuffles == IF config.deckType = "spanish" THEN SpanishShuffles ELSE FrenchShuffles

\* a card id that no card has
NoCard == <<"none", "none">>

\* the card ids a player may ask to play: those of the hand, a card of the
\* deck that may be elsewhere, and NoCard
CardInputs(playerId) ==
    LET p == findIndex(players, playerId)
        hand == IF p = -1 THEN <<>> ELSE players[p + 1].hand
    IN  {hand[i].id : i \in 1..Len(hand)} \cup {SpanishDeck[1].id, NoCard}

NoData == [present |-> FALSE]

Dispatch(action) == Commit(processAction(Pre, action, <<>>, <<>>))

JoinGame(playerId) ==
    Dispatch([type |-> "join_game", playerId |-> playerId, data |-> [present |-> TRUE]])

LeaveGame(playerId) ==
    Dispatch([type |-> "leave_game", playerId |-> playerId, data |-> NoData])

ReadyPlayer(playerId) ==
    Dispatch([type |-> "ready_player", playerId |-> playerId, data |-> NoData])

StartGame(playerId) ==
    \E shuffled1 \in FirstShuffles, shuffled2 \in SecondShuffles :
        Commit(processAction(Pre, [type |-> "start_game", playerId |-> playerId,
                                   data |-> NoData], shuffled1, shuffled2))

PlayCard(playerId, cardId) ==
    Dispatch([type |-> "play_card", playerId |-> playerId,
              data |-> [present |-> TRUE, cardId |-> cardId]])

CallTruco(playerId, call) ==
    Dispatch([type |-> "call_truco", playerId |-> playerId,
              data |-> [present |-> TRUE, call |-> call]])

AcceptTruco(playerId) ==
    Dispatch([type |-> "accept_truco", playerId |-> playerId, data |-> NoData])

RejectTruco(playerId) ==
    Dispatch([type |-> "reject_truco", playerId |-> playerId, data |-> NoData])

\* a JOIN_GAME, PLAY_CARD or CALL_TRUCO payload without data
MissingData(type, playerId) ==
    Dispatch([type |-> type, playerId |-> playerId, data |-> NoData])

\* an action type processAction has no case for
OtherAction(type, playerId) ==
    Dispatch([type |-> type, playerId |-> playerId, data |-> NoData])

\* a callback set by completeRound's setTimeout runs: startNewRound, outside
\* processAction and its try/catch
TimerFires ==
    /\ timers > 0
    /\ \E shuffled1 \in FirstShuffles, shuffled2 \in SecondShuffles :
           Commit(startNewRound([Pre EXCEPT !.timers = @ - 1], shuffled1, shuffled2))

\* the last step was an action that was rejected and did nothing else
Rejected == Len(events) = 1 /\ events[1].type = "game_error"

\* A step.  A rejected action leaves every variable but events and phaseLog
\* as it found it and no step reads these two, so what can follow it is what
\* can follow the state it was dispatched in: the model explores it from
\* there only.
\* The engine compares player ids for equality only, so a game is a renaming
\* of one whose players joined in the order of their ids: the player who
\* joins is the one of least id not in the game.
\* ACCEPT_TRUCO and REJECT_TRUCO do not look their playerId up: it goes to
\* acceptedBy and to the event only, and ResponderIds stands for all.
\* READY_PLAYER for a player of the game is dispatched while the game waits:
\* isReady is read by START_GAME alone, which needs the phase WAITING, and no
\* step returns to it.
Next ==
    \/ /\ ~Rejected
       /\ \E playerId \in JoinerIds :
              /\ \/ findIndex(players, playerId) # -1
                 \/ \A other \in PlayerIds :
                        IdOrder(other) < IdOrder(playerId) => findIndex(players, other) # -1
              /\ JoinGame(playerId)
    \/ /\ ~Rejected
       /\ \E playerId \in PlayerIds : LeaveGame(playerId)
    \/ /\ ~Rejected
       /\ \E playerId \in PlayerIds :
              /\ phase = WAITING \/ findIndex(players, playerId) = -1
              /\ ReadyPlayer(playerId)
    \/ /\ ~Rejected
       /\ \E playerId \in PlayerIds : StartGame(playerId)
    \/ /\ ~Rejected
       /\ \E playerId \in PlayerIds :
              \E cardId \in CardInputs(playerId) : PlayCard(playerId, cardId)
    \/ /\ ~Rejected
       /\ \E playerId \in PlayerIds, call \in TrucoCalls : CallTruco(playerId, call)
    \/ /\ ~Rejected
       /\ \E playerId \in ResponderIds : AcceptTruco(playerId)
    \/ /\ ~Rejected
       /\ \E playerId \in ResponderIds : RejectTruco(playerId)
    \/ /\ ~Rejected
       /\ \E type \in {"join_game", "play_card", "call_truco"}, playerId \in PlayerIds :
              MissingData(type, playerId)
    \/ /\ ~Rejected
       /\ \E type \in OtherActions, playerId \in PlayerIds : OtherAction(type, playerId)
    \/ /\ ~Rejected
       /\ TimerFires

Spec == Init /\ [][Next]_vars

\* the step's action was not refused
Accepted == ~(Len(events') = 1 /\ events'[1].type = "game_error")

\* The engine with a caller that waits for the next round: it dispatches
\* nothing while a timer set by completeRound is pending.  A refused action
\* changes nothing of the game, and the steps here are those of the actions
\* that are accepted.
QuietNext ==
    \/ /\ timers = 0
       /\ \E playerId \in PlayerIds :
              /\ \A other \in PlayerIds :
                     IdOrder(other) < IdOrder(playerId) => findIndex(players, other) # -1
              /\ JoinGame(playerId)
       /\ Accepted
    \/ /\ timers = 0
       /\ \E playerId \in PlayerIds : LeaveGame(playerId)
       /\ Accepted
    \/ /\ timers = 0
       /\ phase = WAITING
       /\ \E playerId \in PlayerIds : ReadyPlayer(playerId)
       /\ Accepted
    \/ /\ timers = 0
       /\ \E playerId \in PlayerIds : StartGame(playerId)
       /\ Accepted
    \/ /\ timers = 0
       /\ \E playerId \in PlayerIds :
              \E cardId \in CardInputs(playerId) : PlayCard(playerId, cardId)
       /\ Accepted
    \/ /\ timers = 0
       /\ \E playerId \in PlayerIds, call \in TrucoCalls : CallTruco(playerId, call)
       /\ Accepted
    \/ /\ timers = 0
       /\ \E playerId \in ResponderIds : AcceptTruco(playerId)
       /\ Accepted
    \/ /\ timers = 0
       /\ \E playerId \in ResponderIds : RejectTruco(playerId)
       /\ Accepted
    \/ TimerFires

\* the event loop runs a callback once its delay has passed: a pending timer
\* fires
QuietSpec == Init /\ [][QuietNext]_vars /\ WF_vars(TimerFires)

\* players whose ids are array indices, in the order in which they join
NumberedIds == <<"2", "1">>

\* the engine with these players: the steps of the actions that are accepted
NumberedNext ==
    \/ /\ \E i \in 1..Len(NumberedIds) :
              /\ Len(players) = i - 1
              /\ JoinGame(NumberedIds[i])
       /\ Accepted
    \/ /\ phase = WAITING
       /\ \E i \in 1..Len(NumberedIds) : ReadyPlayer(NumberedIds[i])
       /\ Accepted
    \/ /\ \E i \in 1..Len(NumberedIds) : StartGame(NumberedIds[i])
       /\ Accepted
    \/ /\ \E i \in 1..Len(NumberedIds) :
              \E cardId \in CardInputs(NumberedIds[i]) : PlayCard(NumberedIds[i], cardId)
       /\ Accepted
    \/ /\ \E i \in 1..Len(NumberedIds) : RejectTruco(NumberedIds[i])
       /\ Accepted
    \/ TimerFires

NumberedSpec == Init /\ [][NumberedNext]_vars

\* TEAM_TRUCO_CONFIG with two seats and a lower target score
TeamConfig == [maxPlayers |-> 2, minPlayers |-> 2, maxScore |-> 2, useTeams |-> TRUE,
               deckType |-> "spanish", handSize |-> 3]

\* initializeGame of an engine in team mode
TeamInit ==
    /\ config = TeamConfig
    /\ phase = WAITING
    /\ players = <<>>
    /\ teams = <<>>
    /\ deck = <<>>
    /\ currentRound = 0
    /\ rounds = <<>>
    /\ currentPlayerIndex = 0
    /\ timers = 0
    /\ events = <<>>
    /\ phaseLog = <<>>
    /\ disturbed = 0

\* the engine in team mode
TeamSpec == TeamInit /\ [][Next]_vars

----------------------------------------------------------------------------
(* game-configs.ts, and the round that START_GAME deals under a              *)
(* configuration that validateGameConfig accepts.                            *)

\* the errors in the order they are pushed
validateGameConfig(c) ==
    LET errors ==
            (IF c.minPlayers < 1 THEN <<"minPlayers">> ELSE <<>>)
         \o (IF c.maxPlayers < c.minPlayers THEN <<"maxPlayers">> ELSE <<>>)
         \o (IF c.maxScore <= 0 THEN <<"maxScore">> ELSE <<>>)
         \o (IF c.handSize <= 0 THEN <<"handSize">> ELSE <<>>)
         \o (IF c.useTeams /\ c.maxPlayers % 2 # 0 THEN <<"teams">> ELSE <<>>)
         \o (IF c.deckType = "spanish" /\ c.handSize * c.maxPlayers > 40
             THEN <<"spanish">> ELSE <<>>)
         \o (IF c.deckType = "french" /\ c.handSize * c.maxPlayers > 52
             THEN <<"french">> ELSE <<>>)
    IN  [isValid |-> Len(errors) = 0, errors |-> errors]

\* the configurations handed to validateGameConfig
ConfigInputs ==
    [maxPlayers : 1..MaxSeats, minPlayers : {0, 2}, maxScore : {0, 15},
     useTeams : BOOLEAN, deckType : {"spanish", "french"}, handSize : 0..MaxHandSize]

SeatIds == <<"p1", "p2", "p3", "p4", "p5", "p6", "p7", "p8", "p9">>

\* an engine constructed with a configuration out of ConfigInputs
ConfigInit ==
    /\ config \in ConfigInputs
    /\ phase = WAITING
    /\ players = <<>>
    /\ teams = <<>>
    /\ deck = <<>>
    /\ currentRound = 0
    /\ rounds = <<>>
    /\ currentPlayerIndex = 0
    /\ timers = 0
    /\ events = <<>>
    /\ phaseLog = <<>>
    /\ disturbed = 0

\* the caller validates the configuration
ValidateConfig ==
    /\ events = <<>>
    /\ events' = <<[type |-> "config_validated",
                    isValid |-> validateGameConfig(config).isValid,
                    errors |-> validateGameConfig(config).errors]>>
    /\ UNCHANGED <<config, phase, players, teams, deck, currentRound, rounds,
                   currentPlayerIndex, timers, phaseLog, disturbed>>

\* the state after numPlayers players have joined and are ready
seated(numPlayers) ==
    updateTeams([Pre EXCEPT !.players =
        [i \in 1..numPlayers |-> [Player(SeatIds[i]) EXCEPT !.isReady = TRUE]]])

\* under a configuration found valid, START_GAME with any number of players
\* the configuration allows, dealt from the whole deck
StartValidGame ==
    /\ events = <<[type |-> "config_validated", isValid |-> TRUE, errors |-> <<>>]>>
    /\ \E numPlayers \in config.minPlayers..config.maxPlayers :
       \E shuffled \in Shuffles(createDeck(config.deckType)) :
           Commit(processAction(seated(numPlayers),
                                [type |-> "start_game", playerId |-> SeatIds[1],
                                 data |-> NoData], shuffled, shuffled))

ConfigNext == ValidateConfig \/ StartValidGame

ConfigSpec == ConfigInit /\ [][ConfigNext]_vars

SecondRoundIds == <<"p1", "p2">>

\* a step that the bounds do not count
Uncounted(action) ==
    /\ Apply(processAction(Pre, action, <<>>, <<>>))
    /\ UNCHANGED disturbed

\* A game of p1 and p2 whose first round ends before a card is played: p1
\* calls truco and p2 rejects the call.  Then the steps of the actions of the
\* two players that are accepted.
SecondRoundNext ==
    \/ /\ \E i \in 1..Len(SecondRoundIds) :
              /\ Len(players) = i - 1
              /\ JoinGame(SecondRoundIds[i])
       /\ Accepted
    \/ /\ phase = WAITING
       /\ \E i \in 1..Len(SecondRoundIds) : ReadyPlayer(SecondRoundIds[i])
       /\ Accepted
    \/ /\ \E i \in 1..Len(SecondRoundIds) : StartGame(SecondRoundIds[i])
       /\ Accepted
    \/ /\ Len(rounds) = 1 /\ phase = PLAYING /\ rounds[1].calledBy = NULL
       /\ Uncounted([type |-> "call_truco", playerId |-> SecondRoundIds[1],
                   data |-> [present |-> TRUE, call |-> "truco"]])
    \/ /\ Len(rounds) = 1 /\ phase = PLAYING /\ rounds[1].calledBy # NULL
       /\ Uncounted([type |-> "reject_truco", playerId |-> SecondRoundIds[2], data |-> NoData])
    \/ /\ Len(rounds) > 1
       /\ \E i \in 1..Len(SecondRoundIds) :
              \E cardId \in CardInputs(SecondRoundIds[i]) :
                  PlayCard(SecondRoundIds[i], cardId)
       /\ Accepted
    \/ /\ Len(rounds) > 1
       /\ \E i \in 1..Len(SecondRoundIds), call \in TrucoCalls :
              CallTruco(SecondRoundIds[i], call)
       /\ Accepted
    \/ /\ Len(rounds) > 1
       /\ \E playerId \in ResponderIds : AcceptTruco(playerId)
       /\ Accepted
    \/ /\ Len(rounds) > 1
       /\ \E playerId \in ResponderIds : RejectTruco(playerId)
       /\ Accepted
    \/ TimerFires

SecondRoundSpec == Init /\ [][SecondRoundNext]_vars

\* the cards a player plays in a game without bound on the cards played: the
\* first and the last of the hand
FairCards(playerId) ==
    LET p == findIndex(players, playerId)
        hand == IF p = -1 THEN <<>> ELSE players[p + 1].hand
    IN  {hand[i].id : i \in {1, Len(hand)} \cap (1..Len(hand))}

\* a player plays a card of their hand and the engine accepts it
FairPlay ==
    /\ \E i \in 1..Len(SecondRoundIds) :
           \E cardId \in FairCards(SecondRoundIds[i]) :
               Uncounted([type |-> "play_card", playerId |-> SecondRoundIds[i],
                          data |-> [present |-> TRUE, cardId |-> cardId]])
    /\ Accepted

\* the callback of a next-round timer runs
FairTimerFires ==
    /\ timers > 0
    /\ \E shuffled1 \in FirstShuffles, shuffled2 \in SecondShuffles :
           Apply(startNewRound([Pre EXCEPT !.timers = @ - 1], shuffled1, shuffled2))
    /\ UNCHANGED disturbed

\* A game of p1 and p2 in which no LEAVE_GAME and no REJECT_TRUCO is
\* dispatched once it has started: the steps of the actions that are accepted.
\* The players call and accept truco while the first round is played.
FairNext ==
    \/ /\ \E i \in 1..Len(SecondRoundIds) :
              /\ Len(players) = i - 1
              /\ JoinGame(SecondRoundIds[i])
       /\ Accepted
    \/ /\ phase = WAITING
       /\ \E i \in 1..Len(SecondRoundIds) : ReadyPlayer(SecondRoundIds[i])
       /\ Accepted
    \/ /\ \E i \in 1..Len(SecondRoundIds) : StartGame(SecondRoundIds[i])
       /\ Accepted
    \/ FairPlay
    \/ /\ Len(rounds) = 1 /\ phase = PLAYING
       /\ \E i \in 1..Len(SecondRoundIds), call \in TrucoCalls :
              Uncounted([type |-> "call_truco", playerId |-> SecondRoundIds[i],
                         data |-> [present |-> TRUE, call |-> call]])
       /\ Accepted
    \/ /\ Len(rounds) = 1 /\ phase = PLAYING
       /\ \E playerId \in ResponderIds :
              Uncounted([type |-> "accept_truco", playerId |-> playerId, data |-> NoData])
       /\ Accepted
    \/ FairTimerFires

\* ENABLED <<FairPlay>>_vars as a predicate of the state: handlePlayCard
\* accepts a card of the hand of a player who is active while the phase is
\* PLAYING, and the step moves the card
CanPlay ==
    /\ phase = PLAYING
    /\ \E i \in 1..Len(players) : players[i].isActive /\ Len(players[i].hand) > 0

\* the active player always eventually plays a card: WF_vars(FairPlay), with
\* ENABLED <<FairPlay>>_vars written as CanPlay
FairPlays == []<><<FairPlay>>_vars \/ []<>~CanPlay

\* the players play on, and the event loop runs the callback of a pending
\* timer once its delay has passed
FairSpec == Init /\ [][FairNext]_vars /\ FairPlays /\ WF_vars(FairTimerFires)

HandCards == {SpanishDeck[i] : i \in 1..MaxHandCards}

\* the hands of up to handSize cards of a deck: no card twice
Hands ==
    UNION {{h \in [1..n -> HandCards] : \A i, j \in 1..n : i # j => h[i] # h[j]} :
           n \in 0..SmallConfig.handSize}

\* a player who holds one of these hands
HandInit ==
    /\ config = SmallConfig
    /\ phase = PLAYING
    /\ \E hand \in Hands : players = <<[Player("p1") EXCEPT !.hand = hand]>>
    /\ teams = <<>>
    /\ deck = <<>>
    /\ currentRound = 0
    /\ rounds = <<>>
    /\ currentPlayerIndex = 0
    /\ timers = 0
    /\ events = <<>>
    /\ phaseLog = <<>>
    /\ disturbed = 0

\* removeCardFromHand(card, hand), then isValidPlay(card, result)
RemoveCard ==
    /\ events = <<>>
    /\ \E card \in HandCards :
           LET result == removeCardFromHand(card, players[1].hand)
           IN  /\ players' = [players EXCEPT ![1].hand = result]
               /\ events' = <<[type |-> "card_removed", card |-> card,
                               isValidPlay |-> isValidPlay(card, result)]>>
    /\ UNCHANGED <<config, phase, teams, deck, currentRound, rounds,
                   currentPlayerIndex, timers, phaseLog, disturbed>>

HandSpec == HandInit /\ [][RemoveCard]_vars

----------------------------------------------------------------------------
(* The properties *)

hasEvent(evs, type) == \E i \in 1..Len(evs) : evs[i].type = type

eventOf(evs, type) == evs[CHOOSE i \in 1..Len(evs) : evs[i].type = type]

errorEvent(code, playerId) == [type |-> "game_error", code |-> code, playerId |-> playerId]

\* the step answers playerId with an error and emits nothing else
rejects(playerId) ==
    /\ Len(events') = 1
    /\ events'[1].type = "game_error"
    /\ events'[1].playerId = playerId

activeSeats(ps) == {i \in 1..Len(ps) : ps[i].isActive}

completedTricks(tricks) == SelectSeq(tricks, LAMBDA t : t.isComplete)

wonBy(tricks, playerId) ==
    Cardinality({i \in 1..Len(tricks) : tricks[i].isComplete /\ tricks[i].winner = playerId})

\* the trick that the step completes: the one that was current when it began
completedTrick == rounds'[currentRound].tricks[rounds[currentRound].currentTrick]

\* C1: whenever a step emits game_error, the game state after it equals the
\* game state before it.
C1_ErrorLeavesStateUnchanged ==
    [][hasEvent(events', "game_error") => UNCHANGED gameVars]_vars

\* C2: once the phase is GAME_END it is GAME_END in every later state.
C2_GameEndIsTerminal ==
    [][phase = GAME_END => phase' = GAME_END]_vars

PhaseEdges ==
    {<<WAITING, DEALING>>, <<DEALING, PLAYING>>, <<PLAYING, ROUND_END>>,
     <<ROUND_END, DEALING>>, <<ROUND_END, GAME_END>>, <<PLAYING, GAME_END>>}

\* C3: every assignment to the phase goes along an edge of the phase state
\* machine, from the value the phase had just before it.
C3_PhaseFollowsEdges ==
    [][\A i \in 1..Len(phaseLog') :
          <<IF i = 1 THEN phase ELSE phaseLog'[i - 1], phaseLog'[i]>> \in PhaseEdges]_vars

\* C4: in every state whose phase is PLAYING exactly one player is active.
C4_OneActiveWhilePlaying ==
    phase = PLAYING => Cardinality(activeSeats(players)) = 1

\* what C5 asks of a PLAY_CARD of cardId dispatched by playerId
PlayCardOutcome(playerId, cardId) ==
    LET p == findIndex(players, playerId)
        inHand == \E i \in 1..Len(players[p + 1].hand) : players[p + 1].hand[i].id = cardId
        expected == IF phase # PLAYING THEN "INVALID_PHASE"
                    ELSE IF p = -1 THEN "PLAYER_NOT_FOUND"
                    ELSE IF ~players[p + 1].isActive THEN "NOT_YOUR_TURN"
                    ELSE IF ~inHand THEN "INVALID_CARD"
                    ELSE NULL
    IN  IF expected # NULL
        THEN /\ events' = <<errorEvent(expected, playerId)>>
             /\ rounds' = rounds
             /\ players' = players
        ELSE LET t == rounds[currentRound].currentTrick
                 before == rounds[currentRound].tricks[t].cardsPlayed
                 after == rounds'[currentRound].tricks[t].cardsPlayed
             IN  /\ ~hasEvent(events', "game_error")
                 /\ Len(after) = Len(before) + 1
                 /\ SubSeq(after, 1, Len(before)) = before
                 /\ after[Len(after)].playerId = playerId
                 /\ after[Len(after)].card.id = cardId
                 /\ Len(players'[p + 1].hand) = Len(players[p + 1].hand) - 1
                 /\ \A i \in 1..Len(players'[p + 1].hand) : players'[p + 1].hand[i].id # cardId

\* C5: a PLAY_CARD is applied only when the phase is PLAYING, the player is in
\* the game and active and the card is in the hand; otherwise it is rejected
\* with the first failing code of INVALID_PHASE, PLAYER_NOT_FOUND,
\* NOT_YOUR_TURN, INVALID_CARD, and no trick and no hand changes.
\* (handlePlayCard ends in a throw or in playCard's card_played: the steps
\* that are neither are no PLAY_CARD of playerId.)
C5_PlayCardValidation ==
    [][\A playerId \in PlayerIds :
          (hasEvent(events', "card_played") \/ rejects(playerId)) =>
              \A cardId \in CardInputs(playerId) :
                  PlayCard(playerId, cardId) => PlayCardOutcome(playerId, cardId)]_vars

\* a PLAY_CARD of a player whose turn it is not has been rejected
C5_Witness ==
    /\ phase = PLAYING
    /\ Len(events) = 1
    /\ events[1].type = "game_error"
    /\ events[1].code = "NOT_YOUR_TURN"
    /\ \E i \in 1..Len(players) : players[i].id = events[1].playerId /\ Len(players[i].hand) > 0

\* what C6 asks of a START_GAME dispatched by playerId
StartGameOutcome(playerId) ==
    LET expected == IF phase # WAITING THEN "GAME_IN_PROGRESS"
                    ELSE IF Len(players) < config.minPlayers THEN "NOT_ENOUGH_PLAYERS"
                    ELSE IF \E i \in 1..Len(players) : ~players[i].isReady
                         THEN "PLAYERS_NOT_READY"
                    ELSE NULL
    IN  IF expected # NULL
        THEN /\ events' = <<errorEvent(expected, playerId)>>
             /\ UNCHANGED gameVars
        ELSE /\ ~hasEvent(events', "game_error")
             /\ hasEvent(events', "game_started")
             /\ phase' = PLAYING
             /\ currentRound' # 0
             /\ rounds'[currentRound'].number = 1
             /\ Len(rounds'[currentRound'].tricks) = 1
             /\ rounds'[currentRound'].currentTrick = 1
             /\ ~rounds'[currentRound'].tricks[1].isComplete
             /\ rounds'[currentRound'].tricks[1].cardsPlayed = <<>>
             /\ \A i \in 1..Len(players') : Len(players'[i].hand) = config.handSize
             /\ activeSeats(players') = {currentPlayerIndex' + 1}

\* C6: START_GAME succeeds only in WAITING with at least minPlayers players,
\* all ready (else GAME_IN_PROGRESS, NOT_ENOUGH_PLAYERS, PLAYERS_NOT_READY in
\* that order); after it the phase is PLAYING, round 1 is current with one open
\* trick, every hand has handSize cards and the player at currentPlayerIndex
\* alone is active.
\* (handleStartGame ends in a throw or in its game_started: the steps that
\* are neither are no START_GAME of playerId.)
C6_StartGame ==
    [][\A playerId \in PlayerIds :
          (hasEvent(events', "game_started") \/ rejects(playerId)) =>
              (StartGame(playerId) => StartGameOutcome(playerId))]_vars

\* a START_GAME has just started the game
C6_Witness ==
    /\ hasEvent(events, "game_started")
    /\ phase = PLAYING
    /\ Len(players) >= config.minPlayers

noRepeatedPlayer(cardsPlayed) ==
    \A i, j \in 1..Len(cardsPlayed) :
        cardsPlayed[i].playerId = cardsPlayed[j].playerId => i = j

\* C7: no trick holds two plays of one player, and a trick is marked complete
\* when it holds exactly one play of each player of the game.
C7_TrickHoldsOnePlayPerPlayer ==
    [][/\ \A r \in 1..Len(rounds') : \A t \in 1..Len(rounds'[r].tricks) :
              noRepeatedPlayer(rounds'[r].tricks[t].cardsPlayed)
       /\ hasEvent(events', "trick_completed") =>
              /\ Len(completedTrick.cardsPlayed) = Len(players')
              /\ \A i \in 1..Len(players') :
                     \E j \in 1..Len(completedTrick.cardsPlayed) :
                         completedTrick.cardsPlayed[j].playerId = players'[i].id]_vars

\* the ranks from the weakest to the strongest
RankOrder == <<"4", "5", "6", "7", "Q", "J", "K", "A", "2", "3">>

SpanishCards == {createDeck("spanish")[i] : i \in 1..Len(createDeck("spanish"))}

\* the power of a card follows its rank alone, in the order of RankOrder
PowerFollowsRank ==
    \A a, b \in SpanishCards : \A i, j \in 1..Len(RankOrder) :
        (a.rank = RankOrder[i] /\ b.rank = RankOrder[j]) =>
            /\ i < j => getCardPower(a) < getCardPower(b)
            /\ i = j => getCardPower(a) = getCardPower(b)

Antisymmetric ==
    \A a, b \in SpanishCards : compareCards(a, b) = -compareCards(b, a)

\* C8: the winner recorded on a completed trick is the player of the earliest
\* play of the greatest power among the trick's plays, the power following the
\* rank alone; and compareCards(a, b) = -compareCards(b, a) for all cards.
C8_TrickWinner ==
    [][hasEvent(events', "trick_completed") =>
          LET plays == completedTrick.cardsPlayed
              best == CHOOSE i \in 1..Len(plays) :
                          /\ \A j \in 1..Len(plays) :
                                 getCardPower(plays[j].card) <= getCardPower(plays[i].card)
                          /\ \A j \in 1..(i - 1) :
                                 getCardPower(plays[j].card) < getCardPower(plays[i].card)
          IN  /\ completedTrick.isComplete
              /\ completedTrick.winner = plays[best].playerId
              /\ eventOf(events', "trick_completed").winnerId = plays[best].playerId
              /\ PowerFollowsRank
              /\ Antisymmetric]_vars

\* a trick was completed in which the first play and a later one share the
\* greatest power, and the first one's player won it
C8_Witness ==
    /\ hasEvent(events, "trick_completed")
    /\ \E r \in 1..Len(rounds) : \E t \in 1..Len(rounds[r].tricks) :
           LET trick == rounds[r].tricks[t]
           IN  /\ trick.isComplete
               /\ Len(trick.cardsPlayed) >= 2
               /\ trick.winner = trick.cardsPlayed[1].playerId
               /\ \E j \in 2..Len(trick.cardsPlayed) :
                      getCardPower(trick.cardsPlayed[j].card)
                          = getCardPower(trick.cardsPlayed[1].card)
               /\ \A j \in 1..Len(trick.cardsPlayed) :
                      getCardPower(trick.cardsPlayed[j].card)
                          <= getCardPower(trick.cardsPlayed[1].card)

\* C9: when a trick completes, the round completes if and only if some player
\* has won two of its tricks or it has three tricks; when two players won
\* tricks 1 and 2 the round goes on in PLAYING with a third trick open, and
\* when the trick 3 winner then holds two wins the round completes with that
\* player as its winner.
C9_RoundCompletion ==
    [][hasEvent(events', "trick_completed") =>
          LET tricks == completedTricks(rounds'[currentRound].tricks)
              n == Len(tricks)
              twoWins == \E i, j \in 1..n : i < j /\ tricks[i].winner = tricks[j].winner
              done == hasEvent(events', "round_completed")
          IN  /\ done <=> (twoWins \/ n >= 3)
              /\ (n = 2 /\ tricks[1].winner # tricks[2].winner) =>
                     /\ phase' = PLAYING
                     /\ Len(rounds'[currentRound].tricks) = 3
                     /\ rounds'[currentRound].currentTrick = 3
                     /\ ~rounds'[currentRound].tricks[3].isComplete
                     /\ rounds'[currentRound].tricks[3].cardsPlayed = <<>>
              /\ (n = 3 /\ tricks[3].winner \in {tricks[1].winner, tricks[2].winner}) =>
                     /\ done
                     /\ eventOf(events', "round_completed").winnerId = tricks[3].winner]_vars

\* a round has just completed with its third trick, after two players won
\* tricks 1 and 2, and the trick 3 winner is its winner
C9_Witness ==
    /\ hasEvent(events, "trick_completed")
    /\ hasEvent(events, "round_completed")
    /\ currentRound # 0
    /\ LET tricks == rounds[currentRound].tricks
       IN  /\ Len(tricks) = 3
           /\ \A t \in 1..3 : tricks[t].isComplete
           /\ tricks[1].winner # tricks[2].winner
           /\ tricks[3].winner \in {tricks[1].winner, tricks[2].winner}
           /\ eventOf(events, "round_completed").winnerId = tricks[3].winner

\* C10: when a round completes through trick play, the score of a player with
\* the most trick wins of the round goes up by the round's trucoValue and no
\* other score changes.
C10_RoundWinnerScores ==
    [][(hasEvent(events', "trick_completed") /\ hasEvent(events', "round_completed")) =>
          LET tricks == rounds'[currentRound].tricks
              winners == {tricks[t].winner : t \in 1..Len(tricks)}
              most == {w \in winners : \A o \in winners : wonBy(tricks, w) >= wonBy(tricks, o)}
              value == rounds'[currentRound].trucoValue
          IN  /\ Len(players') = Len(players)
              /\ \E w \in most :
                     /\ \E i \in 1..Len(players) : players[i].id = w
                     /\ \A i \in 1..Len(players) :
                            /\ players'[i].id = players[i].id
                            /\ players'[i].score =
                                   players[i].score + (IF players[i].id = w THEN value ELSE 0)]_vars

\* what CALL_TRUCO by playerId with the given call must do, from the state the
\* step begins in
CallTrucoOutcome(playerId, call) ==
    LET round == rounds[currentRound]
        oneStepUp == \/ round.trucoCall = "none" /\ call = "truco"
                     \/ round.trucoCall = "truco" /\ call = "retruco"
                     \/ round.trucoCall = "retruco" /\ call = "vale_cuatro"
        trucoUnchanged ==
            /\ Len(rounds') = Len(rounds)
            /\ \A r \in 1..Len(rounds) :
                   /\ rounds'[r].trucoCall = rounds[r].trucoCall
                   /\ rounds'[r].trucoValue = rounds[r].trucoValue
                   /\ rounds'[r].calledBy = rounds[r].calledBy
    IN  IF currentRound = 0
        THEN events' = <<errorEvent("NO_ACTIVE_ROUND", playerId)>> /\ trucoUnchanged
        ELSE IF \A i \in 1..Len(players) : players[i].id # playerId
        THEN events' = <<errorEvent("PLAYER_NOT_FOUND", playerId)>> /\ trucoUnchanged
        ELSE IF ~oneStepUp
        THEN events' = <<errorEvent("INVALID_TRUCO_CALL", playerId)>> /\ trucoUnchanged
        ELSE /\ ~hasEvent(events', "game_error")
             /\ hasEvent(events', "truco_called")
             /\ rounds'[currentRound].trucoCall = call
             /\ rounds'[currentRound].calledBy = playerId
             /\ currentRound' = currentRound

\* C11: a CALL_TRUCO is accepted exactly when there is a current round, the
\* caller is a player of the game and the call is one step above the round's
\* trucoCall in none < truco < retruco < vale_cuatro; it is refused with
\* NO_ACTIVE_ROUND, PLAYER_NOT_FOUND or INVALID_TRUCO_CALL otherwise, and a
\* refused call leaves trucoCall, trucoValue and calledBy of every round as
\* they were.
C11_CallTrucoValidation ==
    [][\A playerId \in PlayerIds :
          (hasEvent(events', "truco_called") \/ rejects(playerId)) =>
              \A call \in TrucoCalls :
                  CallTruco(playerId, call) => CallTrucoOutcome(playerId, call)]_vars

\* a call is refused with INVALID_TRUCO_CALL in a round that stands at
\* retruco, called by another player
C11_Witness ==
    /\ currentRound # 0
    /\ rounds[currentRound].trucoCall = "retruco"
    /\ rounds[currentRound].calledBy = "p2"
    /\ events = <<errorEvent("INVALID_TRUCO_CALL", "p1")>>

\* C12: a REJECT_TRUCO in a round whose calledBy is a player of the game adds
\* exactly 1 to that player's score, whatever trucoValue is and whatever
\* tricks were completed, and leaves the phase other than PLAYING.
C12_RejectGivesCallerOne ==
    [][hasEvent(events', "truco_rejected") =>
          \A playerId \in ResponderIds :
              (/\ RejectTruco(playerId)
               /\ rounds[currentRound].calledBy # NULL) =>
                  /\ phase' # PLAYING
                  /\ \A i \in 1..Len(players) :
                         players[i].id = rounds[currentRound].calledBy =>
                             players'[i].score = players[i].score + 1]_vars

\* some player of ps has reached the target score
reachedMaxScore(ps) == \E i \in 1..Len(ps) : ps[i].score >= config.maxScore

\* C13: a round completion that leaves a player with maxScore or more leaves
\* the phase GAME_END, and once the game has ended with such a player no step
\* starts a round: none is appended to rounds and none is announced, also not
\* by a timer that was pending when the game ended.
C13_NoRoundAfterGameEnd ==
    [][/\ (hasEvent(events', "round_completed") /\ reachedMaxScore(players')) =>
              phase' = GAME_END
       /\ (phase = GAME_END /\ reachedMaxScore(players)) =>
              /\ Len(rounds') = Len(rounds)
              /\ ~hasEvent(events', "round_started")]_vars

\* a round has just been completed and nobody has reached the target score
roundCompleted ==
    /\ hasEvent(events, "round_completed")
    /\ ~reachedMaxScore(players)
    /\ currentRound # 0

\* a round has just been started: it is the current and the last round, the
\* phase is PLAYING and every player holds a full hand
roundStarted ==
    /\ hasEvent(events, "round_started")
    /\ phase = PLAYING
    /\ currentRound # 0
    /\ currentRound = Len(rounds)
    /\ Len(rounds[currentRound].tricks) = 1
    /\ \A i \in 1..Len(players) : Len(players[i].hand) = config.handSize

\* C14: when a round has been completed and no score has reached maxScore,
\* and the caller dispatches nothing until the timer has fired, the next
\* round starts: the phase is PLAYING again, the hands are dealt anew, and
\* the step that follows the completion makes a round with the number of the
\* completed one plus one the current round.
C14_NextRoundStarts ==
    /\ roundCompleted ~> roundStarted
    /\ [][roundCompleted =>
             /\ roundStarted'
             /\ rounds'[currentRound'].number = rounds[currentRound].number + 1]_vars

\* a second round has started after the first was played to its end
C14_Witness ==
    /\ roundStarted
    /\ rounds[currentRound].number = 2
    /\ Len(completedTricks(rounds[1].tricks)) >= 2
    /\ rounds[1].trucoCall = "none"

\* what JOIN_GAME by playerId must do, from the state the step begins in
JoinGameOutcome(playerId) ==
    IF phase # WAITING
    THEN events' = <<errorEvent("GAME_IN_PROGRESS", playerId)>> /\ players' = players
    ELSE IF Len(players) >= config.maxPlayers
    THEN events' = <<errorEvent("GAME_FULL", playerId)>> /\ players' = players
    ELSE IF \E i \in 1..Len(players) : players[i].id = playerId
    THEN events' = <<errorEvent("PLAYER_EXISTS", playerId)>> /\ players' = players
    ELSE /\ ~hasEvent(events', "game_error")
         /\ Len(players') = Len(players) + 1
         /\ SubSeq(players', 1, Len(players)) = players
         /\ players'[Len(players')].id = playerId

playerIds(ps) == {ps[i].id : i \in 1..Len(ps)}

\* C15: JOIN_GAME adds the player exactly when the phase is WAITING, there is
\* a free seat and the id is not in the game, and is refused with
\* GAME_IN_PROGRESS, GAME_FULL or PLAYER_EXISTS, checked in this order,
\* otherwise; the ids of the players are pairwise distinct, there are at most
\* maxPlayers players, and no step that begins outside WAITING adds a player.
C15_JoinGame ==
    [][/\ \A playerId \in JoinerIds :
              (hasEvent(events', "player_joined") \/ rejects(playerId)) =>
                  (JoinGame(playerId) => JoinGameOutcome(playerId))
       /\ \A i, j \in 1..Len(players') : players'[i].id = players'[j].id => i = j
       /\ Len(players') <= config.maxPlayers
       /\ phase # WAITING => playerIds(players') \subseteq playerIds(players)]_vars

\* a player that is not in the game is refused with GAME_FULL
C15_Witness ==
    /\ phase = WAITING
    /\ Len(players) = config.maxPlayers
    /\ events = <<errorEvent("GAME_FULL", "p4")>>

\* what LEAVE_GAME by playerId must do, from the state the step begins in
LeaveGameOutcome(playerId) ==
    IF \A i \in 1..Len(players) : players[i].id # playerId
    THEN events' = <<errorEvent("PLAYER_NOT_FOUND", playerId)>> /\ players' = players
    ELSE /\ Len(players') = Len(players) - 1
         /\ [i \in 1..Len(players') |-> players'[i].id] =
                SelectSeq([i \in 1..Len(players) |-> players[i].id],
                          LAMBDA id : id # playerId)
         /\ (phase = PLAYING /\ Len(players') < config.minPlayers) =>
                /\ phase' = GAME_END
                /\ hasEvent(events', "game_ended")
                /\ eventOf(events', "game_ended").reason = "Not enough players"

\* C16: LEAVE_GAME for a player of the game removes that player and keeps the
\* others in their order; if the phase is PLAYING and fewer than minPlayers
\* are left, whatever their number, the phase becomes GAME_END and game_ended
\* is emitted with the reason "Not enough players".  LEAVE_GAME for another
\* id is refused with PLAYER_NOT_FOUND.
C16_LeaveGame ==
    [][\A playerId \in PlayerIds :
          (hasEvent(events', "player_left") \/ rejects(playerId)) =>
              (LeaveGame(playerId) => LeaveGameOutcome(playerId))]_vars

\* processAction returns normally from the current state for the payload and
\* for every outcome of the shuffles
returns(action) ==
    IF action.type = "start_game"
    THEN \A shuffled1 \in FirstShuffles, shuffled2 \in SecondShuffles :
             ~thrown(processAction(Pre, action, shuffled1, shuffled2))
    ELSE ~thrown(processAction(Pre, action, <<>>, <<>>))

\* the payloads of the given type from playerId: without data, and with
\* data that holds a card id (of a card or of none) and a call (one of the
\* four or none of them)
payloadsReturn(type, playerId) ==
    /\ returns([type |-> type, playerId |-> playerId, data |-> NoData])
    /\ \A cardId \in CardInputs(playerId) :
           returns([type |-> type, playerId |-> playerId,
                    data |-> [present |-> TRUE, cardId |-> cardId, call |-> NULL]])
    /\ \A call \in TrucoCalls :
           returns([type |-> type, playerId |-> playerId,
                    data |-> [present |-> TRUE, cardId |-> NoCard, call |-> call]])

\* processAction answers the payload with one game_error INVALID_ACTION and
\* changes nothing
invalidAction(action) ==
    LET R == processAction(Pre, action, <<>>, <<>>)
    IN  /\ R.events = <<errorEvent("INVALID_ACTION", NULL)>>
        /\ <<R.phase, R.players, R.teams, R.deck, R.currentRound, R.rounds,
             R.currentPlayerIndex>> = gameVars
        /\ R.timers = timers

\* C17: in every reachable state processAction returns normally for every
\* payload: every action type, every player id, with data or without; and a
\* payload whose type is none of the eight handled ones is answered with
\* exactly one game_error of code INVALID_ACTION and no change of the state.
\* (A refused action leaves the game as it was: the states that follow one
\* are covered by the state it was dispatched in.)
C17_ProcessActionReturns ==
    ~Rejected =>
        \A playerId \in JoinerIds :
            /\ \A type \in HandledActions \cup OtherActions :
                   payloadsReturn(type, playerId)
            /\ \A type \in OtherActions :
                   /\ invalidAction([type |-> type, playerId |-> playerId,
                                     data |-> NoData])
                   /\ invalidAction([type |-> type, playerId |-> playerId,
                                     data |-> [present |-> TRUE, cardId |-> NoCard,
                                               call |-> NULL]])

\* an END_GAME was dispatched in a running game and answered with
\* INVALID_ACTION
C17_Witness ==
    /\ phase = PLAYING
    /\ events = <<errorEvent("INVALID_ACTION", NULL)>>

\* C18: whenever the game has a player, currentPlayerIndex is the index of
\* one: 0 <= currentPlayerIndex < players.length.
C18_CurrentPlayerIndexInRange ==
    Len(players) > 0 => (0 <= currentPlayerIndex /\ currentPlayerIndex < Len(players))

\* a player left a game of three whose index stood at the last seat: the
\* index is back at 0 and the player it stood at, now in the second seat, is
\* still the active one
C18_Witness ==
    /\ hasEvent(events, "player_left")
    /\ phase = PLAYING
    /\ Len(players) = 2
    /\ currentPlayerIndex = 0
    /\ players[2].isActive

\* the PlayedCard entries of playerId in the tricks
playsOf(tricks, playerId) ==
    IF Len(tricks) = 0 THEN 0
    ELSE sumLen([t \in 1..Len(tricks) |->
                    [cardsPlayed |-> SelectSeq(tricks[t].cardsPlayed,
                                               LAMBDA pc : pc.playerId = playerId)]])

\* C19: whenever there is a current round, the cards in a player's hand and
\* the cards that player has played in the tricks of the current round are
\* together at most handSize.
C19_HandPlusPlayedWithinHandSize ==
    currentRound # 0 =>
        \A i \in 1..Len(players) :
            Len(players[i].hand) + playsOf(rounds[currentRound].tricks, players[i].id)
                <= config.handSize

\* in a second round, dealt anew, a player has played two cards and holds one
C19_Witness ==
    /\ currentRound = 2
    /\ phase = PLAYING
    /\ Len(players) = 2
    /\ \E i \in 1..Len(players) :
           /\ playsOf(rounds[currentRound].tricks, players[i].id) = 2
           /\ Len(players[i].hand) = config.handSize - 2

openTricks(tricks) == {t \in 1..Len(tricks) : ~tricks[t].isComplete}

\* C20: every round has at most one trick that is not complete, and in the
\* current round that trick, if there is one, is the round's currentTrick and
\* the last of its tricks.
C20_OneOpenTrick ==
    /\ \A r \in 1..Len(rounds) : Cardinality(openTricks(rounds[r].tricks)) <= 1
    /\ currentRound # 0 =>
           \A t \in openTricks(rounds[currentRound].tricks) :
               /\ rounds[currentRound].currentTrick = t
               /\ t = Len(rounds[currentRound].tricks)

\* the first round was ended by a REJECT_TRUCO that left its trick open, and
\* in the second round the first trick is complete and the second is open
C20_Witness ==
    /\ currentRound = 2
    /\ phase = PLAYING
    /\ Len(players) = 2
    /\ openTricks(rounds[1].tricks) # {}
    /\ openTricks(rounds[2].tricks) = {2}

\* the value the table gives a call
tableValue(call) ==
    CASE call = "none" -> 1
      [] call = "truco" -> 2
      [] call = "retruco" -> 3
      [] call = "vale_cuatro" -> 4

\* C21: in every round trucoValue is the table value of trucoCall (none 1,
\* truco 2, retruco 3, vale_cuatro 4), and no step lowers the trucoCall or
\* the trucoValue of a round.
C21_TrucoValueFollowsCall ==
    [][/\ \A r \in 1..Len(rounds') :
              /\ rounds'[r].trucoCall \in TrucoCalls
              /\ rounds'[r].trucoValue = tableValue(rounds'[r].trucoCall)
       /\ Len(rounds') >= Len(rounds)
       /\ \A r \in 1..Len(rounds) :
              /\ tableValue(rounds'[r].trucoCall) >= tableValue(rounds[r].trucoCall)
              /\ rounds'[r].trucoValue >= rounds[r].trucoValue]_vars

\* the current round has been raised to vale_cuatro, worth 4
C21_Witness ==
    /\ currentRound # 0
    /\ hasEvent(events, "truco_called")
    /\ rounds[currentRound].trucoCall = "vale_cuatro"
    /\ rounds[currentRound].trucoValue = 4

\* C22: under a configuration that validateGameConfig accepts, with either
\* deck type, the deck built by createDeck has at least handSize * maxPlayers
\* cards, and a round started with up to maxPlayers players gives every
\* player exactly handSize cards.
C22_ValidConfigDealsFullHands ==
    hasEvent(events, "game_started") =>
        /\ Len(createDeck(config.deckType)) >= config.handSize * config.maxPlayers
        /\ \A i \in 1..Len(players) : Len(players[i].hand) = config.handSize

\* the sum of the scores of the players of ps whose id is in ids
memberScores(ps, ids) ==
    sumScores(SelectSeq(ps, LAMBDA player : \E j \in 1..Len(ids) : ids[j] = player.id))

\* C23: in team mode, in every state between two actions, the score of each
\* team is the sum of the scores of the players that are its members.
C23_TeamScoreIsSumOfMembers ==
    config.useTeams =>
        \A t \in 1..Len(teams) :
            teams[t].score = memberScores(players, teams[t].players)

\* the ids of the cards in the hands and in the tricks of the current round
dealtIds ==
    UNION {{players[i].hand[j].id : j \in 1..Len(players[i].hand)} : i \in 1..Len(players)}
    \cup UNION {{rounds[currentRound].tricks[t].cardsPlayed[k].card.id :
                    k \in 1..Len(rounds[currentRound].tricks[t].cardsPlayed)} :
                t \in 1..Len(rounds[currentRound].tricks)}

\* C24: once a round has been dealt, no card of gameState.deck is in a hand or
\* in a trick of the current round, and right after the deal the deck has the
\* cards of the full deck less handSize for each player.
C24_DeckIsUndealtRemainder ==
    currentRound # 0 =>
        /\ \A d \in 1..Len(deck) : deck[d].id \notin dealtIds
        /\ hasEvent(events, "round_started") =>
               Len(deck) = Len(SpanishDeck) - Len(players) * config.handSize

\* C25: after a PLAY_CARD that is accepted and does not complete the trick,
\* the player who played is not active and the one active player is the next
\* in seat order, wrapping at the end, after the one who played.
C25_TurnPassesToNextSeat ==
    [][(hasEvent(events', "card_played") /\ ~hasEvent(events', "trick_completed")) =>
          LET seat == findIndex(players, eventOf(events', "card_played").playerId)
          IN  /\ ~players'[seat + 1].isActive
              /\ activeSeats(players') = {((seat + 1) % Len(players)) + 1}]_vars

\* C26: when a step completes a trick and not the round, the round has a new
\* open trick, which is its current one, currentPlayerIndex is the seat of
\* the winner of the completed trick and that player is the one active
\* player.
C26_TrickWinnerLeads ==
    [][(hasEvent(events', "trick_completed") /\ ~hasEvent(events', "round_completed")) =>
          LET winnerId == eventOf(events', "trick_completed").winnerId
              tricks == rounds'[currentRound'].tricks
          IN  /\ currentRound' = currentRound
              /\ Len(tricks) = Len(rounds[currentRound].tricks) + 1
              /\ rounds'[currentRound'].currentTrick = Len(tricks)
              /\ ~tricks[Len(tricks)].isComplete
              /\ tricks[Len(tricks)].cardsPlayed = <<>>
              /\ findIndex(players', winnerId) = currentPlayerIndex'
              /\ activeSeats(players') = {currentPlayerIndex' + 1}]_vars

\* C27: a next-round timer fires in the phase ROUND_END only, not while a
\* round is played and not after the game has ended, and at most one timer
\* is pending at any time.
C27_TimerFiresInRoundEndOnly ==
    [][/\ timers' <= 1
       /\ timers' < timers => phase = ROUND_END]_vars

\* C28: a step that begins in the phase ROUND_END or GAME_END changes the
\* score of no player.
C28_ScoresFrozenAfterRound ==
    [][(phase = ROUND_END \/ phase = GAME_END) =>
          \A i \in 1..Len(players), j \in 1..Len(players') :
              players[i].id = players'[j].id => players'[j].score = players[i].score]_vars

\* C29: whenever the phase is PLAYING, the player at currentPlayerIndex is
\* active and no other player is.
C29_ActivePlayerIsCurrentIndex ==
    phase = PLAYING => activeSeats(players) = {currentPlayerIndex + 1}

\* C30: whenever the phase is PLAYING the game has at least minPlayers
\* players.
C30_EnoughPlayersWhilePlaying ==
    phase = PLAYING => Len(players) >= config.minPlayers

\* C31: a round never holds more than 3 tricks, and the tricks of every
\* round are numbered 1..tricks.length in the order they were started.
C31_AtMostThreeTricks ==
    \A r \in 1..Len(rounds) :
        /\ Len(rounds[r].tricks) <= 3
        /\ \A t \in 1..Len(rounds[r].tricks) : rounds[r].tricks[t].number = t

\* a round whose third trick has been played to the end
C31_Witness ==
    \E r \in 1..Len(rounds) :
        /\ Len(rounds[r].tricks) = 3
        /\ rounds[r].tricks[3].isComplete
        /\ Len(rounds[r].tricks[3].cardsPlayed) = Len(players)
        /\ Len(players) >= 2
\* the largest number of tricks a player has won
maxCount(tricks) ==
    CHOOSE n \in 0..Len(tricks) :
        /\ \A i \in 1..Len(tricks) : wonBy(tricks, tricks[i].winner) <= n
        /\ n = 0 \/ \E i \in 1..Len(tricks) : wonBy(tricks, tricks[i].winner) = n

\* the trick with which playerId reached n wins
reachedAt(tricks, playerId, n) ==
    CHOOSE k \in 1..Len(tricks) :
        /\ wonBy(SubSeq(tricks, 1, k), playerId) = n
        /\ tricks[k].winner = playerId

\* the players who share the largest number of wins
tiedPlayers(tricks) ==
    {tricks[i].winner : i \in {j \in 1..Len(tricks) :
                                  wonBy(tricks, tricks[j].winner) = maxCount(tricks)}}

firstToReach(tricks) ==
    CHOOSE w \in tiedPlayers(tricks) :
        \A other \in tiedPlayers(tricks) :
            reachedAt(tricks, w, maxCount(tricks)) <= reachedAt(tricks, other, maxCount(tricks))

\* C32: when a round completes and several players share the largest number
\* of tricks won, the winner of the round is the one of them who reached that
\* number first, whatever the ids of the players are.
C32_TieGoesToFirstToReach ==
    [][hasEvent(events', "round_completed") =>
          LET tricks == completedTricks(rounds'[currentRound'].tricks)
          IN  Cardinality(tiedPlayers(tricks)) > 1 =>
                  eventOf(events', "round_completed").winnerId = firstToReach(tricks)]_vars
\* C33: the winner that game_ended names has the largest score of the
\* players, and of the players with that score it is the first in seat order.
C33_WinnerIsFirstOfTopScore ==
    [][hasEvent(events', "game_ended") =>
          LET w == findIndex(players', eventOf(events', "game_ended").winner) + 1
          IN  /\ w \in 1..Len(players')
              /\ \A i \in 1..Len(players') : players'[i].score <= players'[w].score
              /\ \A i \in 1..(w - 1) : players'[i].score < players'[w].score]_vars

\* C33 as the engine has it: the winner that game_ended names has the
\* largest score of the players, and of the players with that score it is the
\* last in seat order.
C33_WinnerIsLastOfTopScore ==
    [][hasEvent(events', "game_ended") =>
          LET w == findIndex(players', eventOf(events', "game_ended").winner) + 1
          IN  /\ w \in 1..Len(players')
              /\ \A i \in 1..Len(players') : players'[i].score <= players'[w].score
              /\ \A i \in (w + 1)..Len(players') : players'[i].score < players'[w].score]_vars

\* a game that has ended with two players sharing the largest score
C33_Witness ==
    /\ hasEvent(events, "game_ended")
    /\ \E i, j \in 1..Len(players) :
           /\ i < j
           /\ players[i].score = players[j].score
           /\ \A k \in 1..Len(players) : players[k].score <= players[i].score

idsOf(cards) == {cards[i].id : i \in 1..Len(cards)}

RECURSIVE handCards(_)
handCards(ps) == IF Len(ps) = 0 THEN 0 ELSE Len(ps[1].hand) + handCards(Tail(ps))

\* C34: a deal from a deck of at least n * k cards gives each of the n players
\* k cards, no card to two players and no card that is also in the remainder;
\* and while there is a current round no card id is in two hands, in a hand
\* and in a trick of the current round, or twice among the cards played in
\* the current round.
C34_CardsAreUnique ==
    /\ currentRound # 0 =>
           Cardinality(dealtIds) = handCards(players) + sumLen(rounds[currentRound].tricks)
    /\ hasEvent(events, "round_started") =>
           \E shuffled \in SecondShuffles :
               LET n == Len(players)
                   k == config.handSize
                   hands == dealHands(shuffled, n, k)
                   remainingDeck == dealRemaining(shuffled, n, k)
               IN  /\ Len(shuffled) >= n * k
                   /\ \A i \in 1..n :
                          /\ players[i].hand = hands[i]
                          /\ Len(hands[i]) = k
                          /\ Cardinality(idsOf(hands[i])) = k
                          /\ idsOf(hands[i]) \cap idsOf(remainingDeck) = {}
                          /\ \A j \in 1..n : i # j => idsOf(hands[i]) \cap idsOf(hands[j]) = {}
                   /\ Len(remainingDeck) = Len(shuffled) - n * k

\* three players hold cards of a round in which three cards have been played
C34_Witness ==
    /\ currentRound # 0
    /\ phase = PLAYING
    /\ Len(players) = 3
    /\ sumLen(rounds[currentRound].tricks) >= 3
    /\ \A i \in 1..Len(players) : Len(players[i].hand) > 0
\* C35: a round that has completed keeps its record: no step changes its
\* trucoCall, trucoValue, calledBy, acceptedBy or its tricks.  The rounds taken
\* here are the current round while the phase is ROUND_END, which only
\* completeRound sets, and the rounds that are not the current round any more.
C35_CompletedRoundIsFrozen ==
    [][\A r \in 1..Len(rounds) :
          (phase = ROUND_END \/ r # currentRound) =>
              /\ r <= Len(rounds')
              /\ rounds'[r] = rounds[r]]_vars
\* the last trick of a round that has been completed
lastCompleted(r) == completedTricks(r.tricks)[Len(completedTricks(r.tricks))]

\* C36: the first player to act in round 1 is the player at seat 0, and the
\* first to act in a later round is the winner of the last completed trick of
\* the round before, when no player has left since that trick.
C36_FirstToActInRound ==
    [][hasEvent(events', "round_started") =>
          LET n == Len(rounds')
          IN  /\ n = 1 =>
                     /\ currentPlayerIndex' = 0
                     /\ activeSeats(players') = {1}
              /\ (/\ n > 1
                  /\ Len(completedTricks(rounds'[n - 1].tricks)) > 0
                  /\ Len(lastCompleted(rounds'[n - 1]).cardsPlayed) = Len(players')) =>
                     /\ players'[currentPlayerIndex' + 1].id = lastCompleted(rounds'[n - 1]).winner
                     /\ activeSeats(players') = {currentPlayerIndex' + 1}]_vars

gainers == {i \in 1..Len(players) : players'[i].score > players[i].score}

\* C37: in a game with handSize >= 3 in which, once it has started, no
\* LEAVE_GAME and no REJECT_TRUCO is dispatched, the active player always
\* eventually plays a card of their hand and the next-round timer always
\* fires, the game eventually reaches GAME_END; every round completes with
\* exactly one player gaining at least one point; and while the phase is
\* PLAYING the active player has a card to play.
C37_FairPlayTerminates ==
    /\ (phase = PLAYING) ~> (phase = GAME_END)
    /\ [][hasEvent(events', "round_completed") =>
              /\ Len(players') = Len(players)
              /\ Cardinality(gainers) = 1
              /\ \A i \in gainers : players'[i].score >= players[i].score + 1]_vars
    /\ [](phase = PLAYING => config.handSize >= 3 /\ CanPlay)

\* a game that has ended in its third round, the first two won by different
\* players
C37_Witness ==
    /\ phase = GAME_END
    /\ Len(rounds) = 3
    /\ \A r \in 1..3 : Len(completedTricks(rounds[r].tricks)) >= 2
    /\ \E i \in 1..Len(players) : players[i].score = 2
    /\ \E i \in 1..Len(players) : players[i].score = 1
\* sequence a is the beginning of sequence b
isPrefix(a, b) == Len(a) <= Len(b) /\ \A i \in 1..Len(a) : a[i] = b[i]

\* C38: the rounds of the history are numbered 1, 2, ... in their order, the
\* current round, when there is one, is the last of them, and a step only
\* appends: every round stays at its place with its number, every trick of it
\* stays at its place with its number, and the cards played in it stay.
C38_RoundHistoryAppendOnly ==
    /\ [](/\ \A r \in 1..Len(rounds) : rounds[r].number = r
          /\ currentRound # 0 => currentRound = Len(rounds))
    /\ [][/\ Len(rounds') >= Len(rounds)
          /\ \A r \in 1..Len(rounds) :
                 /\ rounds'[r].number = rounds[r].number
                 /\ Len(rounds'[r].tricks) >= Len(rounds[r].tricks)
                 /\ \A t \in 1..Len(rounds[r].tricks) :
                        /\ rounds'[r].tricks[t].number = rounds[r].tricks[t].number
                        /\ isPrefix(rounds[r].tricks[t].cardsPlayed,
                                    rounds'[r].tricks[t].cardsPlayed)]_vars

\* a third round has begun after two rounds in which tricks were played
C38_Witness ==
    /\ Len(rounds) = 3
    /\ currentRound = 3
    /\ Len(completedTricks(rounds[1].tricks)) >= 1
    /\ Len(completedTricks(rounds[2].tricks)) >= 1
\* hand without the card at position k
without(hand, k) ==
    [i \in 1..(Len(hand) - 1) |-> IF i < k THEN hand[i] ELSE hand[i + 1]]

\* C39: removeCardFromHand(c, hand) for a card c of the hand is one card
\* shorter, holds the other cards in their order and does not hold c
\* (isValidPlay(c, result) is false); for a card that is not in the hand it is
\* the hand unchanged.
C39_RemoveCardFromHand ==
    [][hasEvent(events', "card_removed") =>
          LET c == events'[1].card
              hand == players[1].hand
              result == players'[1].hand
          IN  IF \E k \in 1..Len(hand) : hand[k].id = c.id
              THEN /\ Len(result) = Len(hand) - 1
                   /\ \E k \in 1..Len(hand) : hand[k].id = c.id /\ result = without(hand, k)
                   /\ ~events'[1].isValidPlay
                   /\ ~isValidPlay(c, result)
              ELSE result = hand]_vars

\* the middle card of a hand of three has been removed
C39_Witness ==
    /\ hasEvent(events, "card_removed")
    /\ ~events[1].isValidPlay
    /\ Len(players[1].hand) = 2
    /\ \E i, j, k \in 1..MaxHandCards :
           /\ i < j /\ j < k
           /\ players[1].hand = <<SpanishDeck[i], SpanishDeck[k]>>
           /\ events[1].card = SpanishDeck[j]
====
